---------------------------- MODULE Spec2Model ----------------------------
(***************************************************************************)
(* Quote Studio (src/quote_studio.py): text layout, compositing, clamping  *)
(* and the drag/keyboard session of the QuoteStudio widget.                *)
(*                                                                         *)
(* Text is a sequence of one-character strings.  A raster is a record of   *)
(* the image it was made from, the style filter applied to it and the      *)
(* ordered list of text draws made onto it.  A font is a (family, size)    *)
(* pair; the glyph table below stands for the font engine (PIL ImageFont). *)
(***************************************************************************)
EXTENDS Integers, Sequences, FiniteSets, TLC

VARIABLES
    base_image,            \* QuoteStudio.base_image   [id, w, h]
    filtered_bg,           \* QuoteStudio.filtered_bg  raster
    result_image,          \* QuoteStudio.result_image raster
    current_style,         \* QuoteStudio.current_style
    text_color,            \* QuoteStudio.text_color
    font_size,             \* QuoteStudio.font_size
    quote,                 \* QuoteStudio.quote
    author,                \* QuoteStudio.author
    text_pos,              \* QuoteStudio.text_pos  <<x, y>>
    drag_offset,           \* QuoteStudio.drag_offset (attribute absent until the first drag)
    dragging,              \* PreviewLabel.dragging
    drag_show_box,         \* PreviewLabel.drag_show_box
    text_bbox_img_coords,  \* PreviewLabel.text_bbox_img_coords  QRect [x, y, w, h]
    pixmap,                \* the raster shown by the preview label (QLabel pixmap)
    scale,                 \* PreviewLabel.scale, a fraction <<num, den>>
    ox,                    \* PreviewLabel.ox
    oy,                    \* PreviewLabel.oy
    ev,                    \* the last handler run: its name, outcome and output
    failures,              \* number of injected failures so far
    call,                  \* arguments of a direct call of a pure function
    ret_val                \* its result

vars == <<base_image, filtered_bg, result_image, current_style, text_color,
          font_size, quote, author, text_pos, drag_offset, dragging,
          drag_show_box, text_bbox_img_coords, pixmap, scale, ox, oy,
          ev, failures, call, ret_val>>

session_vars == <<base_image, filtered_bg, result_image, current_style, text_color,
          font_size, quote, author, text_pos, drag_offset, dragging,
          drag_show_box, text_bbox_img_coords, pixmap, scale, ox, oy,
          ev, failures>>

\* An optional value (Python None, or an attribute not yet set) is the empty
\* sequence; a present value v is <<v>>, and a present tuple is the tuple.

(***************************************************************************)
(* Bounds of the exploration                                               *)
(***************************************************************************)
MaxTextLen == 6            \* longest text handed to wrap_text directly
MaxWrapWidth == 26         \* largest max_width handed to wrap_text directly
MaxDrift == 1              \* how far the anchor is followed from the load anchor
MaxFailures == 1           \* injected failures per behaviour
MaxOut == 3                \* how far outside the canvas a clamped anchor may start

(***************************************************************************)
(* Arithmetic helpers                                                      *)
(***************************************************************************)
Max(a, b) == IF a >= b THEN a ELSE b

Min(a, b) == IF a <= b THEN a ELSE b

\* int(x) of Python for a fraction n/d with d > 0: truncation toward zero
IntTrunc(n, d) == IF n >= 0 THEN n \div d ELSE -((-n) \div d)

\* int(round(n/d)) of Python 3 for d > 0: round half to even
RoundHalfEven(n, d) ==
    LET f == n \div d              \* floor
        r == n - f * d             \* 0 <= r < d
    IN  IF 2 * r < d THEN f
        ELSE IF 2 * r > d THEN f + 1
        ELSE IF f % 2 = 0 THEN f ELSE f + 1

(***************************************************************************)
(* Strings                                                                 *)
(***************************************************************************)
Chars == {"W", "g", " "}

IsSpace(c) == c = " "

RECURSIVE SplitFrom(_, _, _, _)
SplitFrom(text, i, cur, acc) ==
    IF i > Len(text)
    THEN IF cur # <<>> THEN Append(acc, cur) ELSE acc
    ELSE IF IsSpace(text[i])
         THEN SplitFrom(text, i + 1, <<>>, IF cur # <<>> THEN Append(acc, cur) ELSE acc)
         ELSE SplitFrom(text, i + 1, Append(cur, text[i]), acc)

\* str.split(): the maximal runs of non-whitespace characters
split(text) == SplitFrom(text, 1, <<>>, <<>>)

RECURSIVE LStrip(_)
LStrip(text) ==
    IF text # <<>> /\ IsSpace(Head(text)) THEN LStrip(Tail(text)) ELSE text

RECURSIVE RStrip(_)
RStrip(text) ==
    IF text # <<>> /\ IsSpace(text[Len(text)])
    THEN RStrip(SubSeq(text, 1, Len(text) - 1)) ELSE text

\* str.strip()
strip(text) == RStrip(LStrip(text))

\* the literal prefix of the author line (three characters and a space in the source)
AUTHOR_PREFIX == <<"~", "~", "~", " ">>

(***************************************************************************)
(* Font engine: ImageDraw.textbbox((0, 0), s, font)                        *)
(***************************************************************************)
STYLES == {"None", "Epic", "Noir", "Fancy", "Cyberpunk", "Phonk", "Tech"}

\* pick_style_font / find_font: the first family of the style's preference list
STYLE_FONT_PREFS(style) ==
    CASE style = "None" -> "Arial"
      [] style = "Epic" -> "Impact"
      [] style = "Noir" -> "Georgia"
      [] style = "Fancy" -> "Pacifico"
      [] style = "Cyberpunk" -> "Orbitron"
      [] style = "Phonk" -> "Futura"
      [] style = "Tech" -> "Consolas"
      [] OTHER -> "Arial"

pick_style_font(style, size) == [family |-> STYLE_FONT_PREFS(style), size |-> size]

Monospaced(font) == font.family = "Consolas"

Condensed(font) == font.family = "Impact"

\* advance width of one glyph
Advance(c, font) ==
    IF Monospaced(font) THEN (6 * font.size) \div 10
    ELSE LET a == CASE c = "W" -> font.size
                    [] c = "g" -> font.size \div 2
                    [] c = "~" -> font.size \div 2
                    [] OTHER -> (3 * font.size) \div 10
         IN  IF Condensed(font) THEN (6 * a) \div 10 ELSE a

\* top and bottom of a glyph's ink below the drawing origin
InkTop(c, font) ==
    CASE c = "W" -> (2 * font.size) \div 10
      [] c = "g" -> (4 * font.size) \div 10
      [] OTHER -> (5 * font.size) \div 10

InkBottom(c, font) ==
    CASE c = "W" -> (9 * font.size) \div 10
      [] c = "g" -> (11 * font.size) \div 10
      [] OTHER -> (6 * font.size) \div 10

RECURSIVE SumAdvance(_, _)
SumAdvance(s, font) ==
    IF s = <<>> THEN 0 ELSE Advance(Head(s), font) + SumAdvance(Tail(s), font)

\* the least ink top and the greatest ink bottom over the glyphs of s that
\* leave ink, as <<top, bottom>>; <<>> when none does
RECURSIVE InkSpan(_, _)
InkSpan(s, font) ==
    IF s = <<>> THEN <<>>
    ELSE LET r == InkSpan(Tail(s), font)
             c == Head(s)
         IN  IF IsSpace(c) THEN r
             ELSE IF r = <<>> THEN <<InkTop(c, font), InkBottom(c, font)>>
             ELSE <<Min(InkTop(c, font), r[1]), Max(InkBottom(c, font), r[2])>>

\* <<left, top, right, bottom>> of the text drawn at (0, 0)
textbbox(s, font) ==
    IF s = <<>> THEN <<0, 0, 0, 0>>
    ELSE LET ink == InkSpan(s, font)
         IN  IF ink = <<>> THEN <<0, 0, SumAdvance(s, font), 0>>
             ELSE <<0, ink[1], SumAdvance(s, font), ink[2]>>

(***************************************************************************)
(* wrap_text                                                               *)
(***************************************************************************)
RECURSIVE WrapLoopAcceptAll(_, _, _, _, _, _)
WrapLoopAcceptAll(words, i, line, lines, font, max_width) ==
    IF i > Len(words)
    THEN IF line # <<>> THEN Append(lines, line) ELSE lines
    ELSE LET w == words[i]
             test == IF line = <<>> THEN w ELSE line \o <<" ">> \o w
         IN  WrapLoopAcceptAll(words, i + 1, test, lines, font, max_width)

RECURSIVE WrapLoopDropLine(_, _, _, _, _, _)
WrapLoopDropLine(words, i, line, lines, font, max_width) ==
    IF i > Len(words)
    THEN IF line # <<>> THEN Append(lines, line) ELSE lines
    ELSE LET w == words[i]
             test == IF line = <<>> THEN w ELSE line \o <<" ">> \o w
             bbox == textbbox(test, font)
         IN  IF bbox[3] - bbox[1] <= max_width
             THEN WrapLoopDropLine(words, i + 1, test, lines, font, max_width)
             ELSE WrapLoopDropLine(words, i + 1, w, lines, font, max_width)

\* the for-loop of wrap_text from word i on, with the current line and the lines so far
RECURSIVE WrapLoop(_, _, _, _, _, _)
WrapLoop(words, i, line, lines, font, max_width) ==
    IF i > Len(words)
    THEN IF line # <<>> THEN Append(lines, line) ELSE lines
    ELSE LET w == words[i]
             test == IF line = <<>> THEN w ELSE line \o <<" ">> \o w
             bbox == textbbox(test, font)
         IN  IF bbox[3] - bbox[1] <= max_width
             THEN WrapLoop(words, i + 1, test, lines, font, max_width)
             ELSE WrapLoop(words, i + 1, w,
                           IF line # <<>> THEN Append(lines, line) ELSE lines,
                           font, max_width)

wrap_text(text, font, max_width) ==
    IF text = <<>> THEN <<>>
    ELSE WrapLoop(split(text), 1, <<>>, <<>>, font, max_width)

(***************************************************************************)
(* measure_multiline                                                       *)
(***************************************************************************)
RECURSIVE SumSeq(_)
SumSeq(s) == IF s = <<>> THEN 0 ELSE Head(s) + SumSeq(Tail(s))

\* the loop of measure_multiline with a line spacing counted after every line,
\* the last one included
RECURSIVE MeasureLoopSpacingAfterEach(_, _, _, _, _)
MeasureLoopSpacingAfterEach(lines, font, line_spacing, width, line_heights) ==
    IF lines = <<>>
    THEN <<width,
           IF line_heights # <<>>
           THEN SumSeq(line_heights) + line_spacing * Len(line_heights)
           ELSE 0,
           line_heights>>
    ELSE LET bbox == textbbox(Head(lines), font)
             w == bbox[3] - bbox[1]
             h == bbox[4] - bbox[2]
         IN  MeasureLoopSpacingAfterEach(Tail(lines), font, line_spacing, Max(width, w),
                                         Append(line_heights, h))

\* the loop of measure_multiline over the lines left, and what it returns after
\* the last one: <<width, height, line_heights>>
RECURSIVE MeasureLoop(_, _, _, _, _)
MeasureLoop(lines, font, line_spacing, width, line_heights) ==
    IF lines = <<>>
    THEN <<width,
           IF line_heights # <<>>
           THEN SumSeq(line_heights) + line_spacing * (Len(line_heights) - 1)
           ELSE 0,
           line_heights>>
    ELSE LET bbox == textbbox(Head(lines), font)
             w == bbox[3] - bbox[1]
             h == bbox[4] - bbox[2]
         IN  MeasureLoop(Tail(lines), font, line_spacing, Max(width, w),
                         Append(line_heights, h))

\* <<width, height, line_heights>>
measure_multiline(lines, font, line_spacing) ==
    MeasureLoop(lines, font, line_spacing, 0, <<>>)

(***************************************************************************)
(* Rasters and the style filter                                            *)
(***************************************************************************)
margin_ratio_num == 5      \* margin_ratio = 0.05 = 5 / 100

margin_ratio_den == 100

BLACK == <<0, 0, 0>>

\* a new image: its pixel source, its size, the filters applied, the text drawn
NewImage(id, w, h) == [id |-> id, w |-> w, h |-> h, filters |-> <<>>, ops |-> <<>>]

\* apply_style: a new raster; "None" only converts to RGB, the pixels are the same
apply_style(background, style_name) ==
    IF style_name = "None" THEN background
    ELSE [background EXCEPT !.filters = Append(@, style_name)]

\* int(img.width * (1 - 2 * margin_ratio))
max_width_of(img) ==
    IntTrunc(img.w * (margin_ratio_den - 2 * margin_ratio_num), margin_ratio_den)

(***************************************************************************)
(* compute_text_layout                                                     *)
(***************************************************************************)
\* [ln for ln in lines if ln != ""]
RECURSIVE NonBlank(_)
NonBlank(lines) ==
    IF lines = <<>> THEN <<>>
    ELSE IF Head(lines) # <<>> THEN <<Head(lines)>> \o NonBlank(Tail(lines))
    ELSE NonBlank(Tail(lines))

line_spacing_of(fsize) == Max(6, IntTrunc(fsize * 25, 100))

\* compute_text_layout that puts the spacer line before the author only when
\* there is a quote above it
compute_text_layout_spacer_after_quote(q, a, fsize, font, max_width) ==
    LET Totals(quote_lines, author_block_lines, line_spacing, qm, am) ==
            LET spacer_h ==
                    IF author_block_lines # <<>>
                    THEN IF qm[3] # <<>> THEN IntTrunc(qm[3][Len(qm[3])] * 6, 10)
                         ELSE IntTrunc(fsize * 6, 10)
                    ELSE 0
            IN  [quote_lines |-> quote_lines,
                 author_block_lines |-> author_block_lines,
                 total_w |-> Max(qm[1], am[1]),
                 total_h |-> qm[2] + (IF author_block_lines # <<>> THEN spacer_h ELSE 0)
                                   + am[2],
                 line_spacing |-> line_spacing,
                 spacer_h |-> spacer_h]
        Measured(quote_lines, author_block_lines, line_spacing) ==
            Totals(quote_lines, author_block_lines, line_spacing,
                   measure_multiline(quote_lines, font, line_spacing),
                   measure_multiline(NonBlank(author_block_lines), font, line_spacing))
        Author(quote_lines) ==
            Measured(quote_lines,
                     IF strip(a) # <<>>
                     THEN (IF quote_lines # <<>> THEN <<<<>>>> ELSE <<>>)
                          \o wrap_text(AUTHOR_PREFIX \o strip(a), font, max_width)
                     ELSE <<>>,
                     line_spacing_of(fsize))
    IN  Author(IF q # <<>> THEN wrap_text(q, font, max_width) ELSE <<>>)

\* Totals: the spacer and the totals from the measures <<width, height,
\* line_heights>> of the quote (qm) and of the author block (am)
compute_text_layout(q, a, fsize, font, max_width) ==
    LET Totals(quote_lines, author_block_lines, line_spacing, qm, am) ==
            LET spacer_h ==
                    IF author_block_lines # <<>>
                    THEN IF qm[3] # <<>> THEN IntTrunc(qm[3][Len(qm[3])] * 6, 10)
                         ELSE IntTrunc(fsize * 6, 10)
                    ELSE 0
            IN  [quote_lines |-> quote_lines,
                 author_block_lines |-> author_block_lines,
                 total_w |-> Max(qm[1], am[1]),
                 total_h |-> qm[2] + (IF author_block_lines # <<>> THEN spacer_h ELSE 0)
                                   + am[2],
                 line_spacing |-> line_spacing,
                 spacer_h |-> spacer_h]
        Measured(quote_lines, author_block_lines, line_spacing) ==
            Totals(quote_lines, author_block_lines, line_spacing,
                   measure_multiline(quote_lines, font, line_spacing),
                   measure_multiline(NonBlank(author_block_lines), font, line_spacing))
    IN  Measured(IF q # <<>> THEN wrap_text(q, font, max_width) ELSE <<>>,
                 IF strip(a) # <<>>
                 THEN <<<<>>>> \o wrap_text(AUTHOR_PREFIX \o strip(a), font, max_width)
                 ELSE <<>>,
                 line_spacing_of(fsize))

(***************************************************************************)
(* draw_text_with_shadow                                                   *)
(***************************************************************************)
SHADOW_OFFSETS == << <<-2, 2>>, <<2, 2>>, <<2, -2>>, <<-2, -2>> >>

\* one ImageDraw.text call
DrawOp(x, y, ln, font, fill, is_shadow) ==
    [x |-> x, y |-> y, text |-> ln, font |-> font, fill |-> fill, shadow |-> is_shadow]

\* draw_lines: <<draws made, final yy>>
RECURSIVE draw_lines(_, _, _, _, _, _, _, _)
draw_lines(lines, start_y, x, font, color, draw_shadow, line_spacing, spacer_h) ==
    IF lines = <<>> THEN << <<>>, start_y >>
    ELSE LET ln == Head(lines)
         IN  IF ln = <<>>
             THEN draw_lines(Tail(lines), start_y + spacer_h, x, font, color,
                             draw_shadow, line_spacing, spacer_h)
             ELSE LET shadow_ops ==
                          IF draw_shadow
                          THEN [k \in 1..4 |->
                                   DrawOp(x + SHADOW_OFFSETS[k][1], start_y + SHADOW_OFFSETS[k][2],
                                          ln, font, BLACK, TRUE)]
                          ELSE <<>>
                      bbox == textbbox(ln, font)
                      lh == bbox[4] - bbox[2]
                      rest == draw_lines(Tail(lines), start_y + lh + line_spacing, x, font,
                                         color, draw_shadow, line_spacing, spacer_h)
                  IN  << shadow_ops \o <<DrawOp(x, start_y, ln, font, color, FALSE)>> \o rest[1],
                         rest[2] >>

\* the raster after the draws, and the returned bounding box; qd: the quote's
\* draws and the y they end at, ad: the author block's, starting there
draw_text_with_shadow(img, position, font, color, draw_shadow, q, a, fsize) ==
    LET x == position[1]
        y == position[2]
        Drawn(lay, qd, ad) ==
            [img |-> [img EXCEPT !.ops = @ \o qd[1] \o ad[1]],
             bbox |-> <<x, y, x + lay.total_w, y + lay.total_h>>]
        Author(lay, qd) ==
            Drawn(lay, qd,
                  IF lay.author_block_lines # <<>>
                  THEN draw_lines(lay.author_block_lines, qd[2], x, font, color,
                                  draw_shadow, lay.line_spacing, lay.spacer_h)
                  ELSE << <<>>, qd[2] >>)
        Quote(lay) ==
            Author(lay, draw_lines(lay.quote_lines, y, x, font, color, draw_shadow,
                                   lay.line_spacing, lay.spacer_h))
    IN  Quote(compute_text_layout(q, a, fsize, font, max_width_of(img)))

(***************************************************************************)
(* compute_text_bbox, compose_final                                        *)
(***************************************************************************)
\* compute_text_bbox without the early return for an empty layout
compute_text_bbox_always(x, y, fbg, style, fsize, q, a) ==
    LET font == pick_style_font(style, fsize)
        Box(lay) == <<x, y, x + lay.total_w, y + lay.total_h>>
    IN  Box(compute_text_layout(q, a, fsize, font, max_width_of(fbg)))

\* the box <<x0, y0, x1, y1>>, or <<>> for None
compute_text_bbox(x, y, fbg, style, fsize, q, a) ==
    LET font == pick_style_font(style, fsize)
        Box(lay) == IF lay.total_w = 0 \/ lay.total_h = 0 THEN <<>>
                    ELSE <<x, y, x + lay.total_w, y + lay.total_h>>
    IN  Box(compute_text_layout(q, a, fsize, font, max_width_of(fbg)))

QRect(x, y, w, h) == [x |-> x, y |-> y, w |-> w, h |-> h]

\* the composed raster and the rectangle handed to preview.set_text_bbox
\* compose_final asking for the shadow whatever the preview flag says
compose_final_style_only(shadow_for_preview, base, style, fsize, color, pos, q, a) ==
    LET bg == apply_style(base, style)
        font == pick_style_font(style, fsize)
        draw_shadow == style \in {"Epic", "Noir"}
        Composed(out, bbox) ==
            [out |-> out,
             rect |-> QRect(bbox[1], bbox[2], bbox[3] - bbox[1], bbox[4] - bbox[2])]
        Draw(d) == Composed(d.img, d.bbox)
    IN  Draw(draw_text_with_shadow(bg, pos, font, color, draw_shadow, q, a, fsize))

compose_final(shadow_for_preview, base, style, fsize, color, pos, q, a) ==
    LET bg == apply_style(base, style)
        font == pick_style_font(style, fsize)
        draw_shadow == shadow_for_preview /\ style \in {"Epic", "Noir"}
        Composed(out, bbox) ==
            [out |-> out,
             rect |-> QRect(bbox[1], bbox[2], bbox[3] - bbox[1], bbox[4] - bbox[2])]
        Draw(d) == Composed(d.img, d.bbox)
    IN  Draw(draw_text_with_shadow(bg, pos, font, color, draw_shadow, q, a, fsize))

(***************************************************************************)
(* Preview label: update_preview_pixmap and map_to_img                     *)
(***************************************************************************)
\* the size of the preview label: its minimum size
PREVIEW_W == 640

PREVIEW_H == 400

\* the pixmap shown and the viewport transform for a raster and a label size
update_preview_pixmap(img) ==
    LET label_w == Max(1, PREVIEW_W)
        label_h == Max(1, PREVIEW_H)
        sc == IF label_w * img.h <= label_h * img.w
              THEN <<label_w, img.w>> ELSE <<label_h, img.h>>
        disp_w == IntTrunc(img.w * sc[1], sc[2])
        disp_h == IntTrunc(img.h * sc[1], sc[2])
    IN  [pixmap |-> [img |-> img, w |-> disp_w, h |-> disp_h],
         scale |-> sc,
         ox |-> (label_w - disp_w) \div 2,
         oy |-> (label_h - disp_h) \div 2]

\* PreviewLabel.map_to_img with the current transform
map_to_img(pos) ==
    << RoundHalfEven((pos[1] - ox) * scale[2], scale[1]),
       RoundHalfEven((pos[2] - oy) * scale[2], scale[1]) >>

(***************************************************************************)
(* clamp_text_within, point_in_text_bbox                                   *)
(***************************************************************************)
\* clamp_text_within without its two tests against the right and bottom edges
clamp_text_within_near_edges(pos, base, fbg, style, fsize, q, a) ==
    LET Clamped(bbox) ==
            IF bbox = <<>> THEN pos
            ELSE <<pos[1] + (IF bbox[1] < 0 THEN -bbox[1] ELSE 0),
                   pos[2] + (IF bbox[2] < 0 THEN -bbox[2] ELSE 0)>>
    IN  Clamped(compute_text_bbox(pos[1], pos[2], fbg, style, fsize, q, a))

\* clamp_text_within keeping the box one pixel inside the left and top edges
clamp_text_within_margin(pos, base, fbg, style, fsize, q, a) ==
    LET img_w == base.w
        img_h == base.h
        Clamped(bbox) ==
            IF bbox = <<>> THEN pos
            ELSE LET x0 == bbox[1]
                     y0 == bbox[2]
                     x1 == bbox[3]
                     y1 == bbox[4]
                     dx1 == IF x0 < 1 THEN 1 - x0 ELSE 0
                     dy1 == IF y0 < 1 THEN 1 - y0 ELSE 0
                     dx == IF x1 > img_w THEN img_w - x1 ELSE dx1
                     dy == IF y1 > img_h THEN img_h - y1 ELSE dy1
                 IN  <<pos[1] + dx, pos[2] + dy>>
    IN  Clamped(compute_text_bbox(pos[1], pos[2], fbg, style, fsize, q, a))

\* clamp_text_within where a correction at the left or top edge is kept when the
\* right or bottom edge is out as well
clamp_text_within_left_wins(pos, base, fbg, style, fsize, q, a) ==
    LET img_w == base.w
        img_h == base.h
        Clamped(bbox) ==
            IF bbox = <<>> THEN pos
            ELSE LET x0 == bbox[1]
                     y0 == bbox[2]
                     x1 == bbox[3]
                     y1 == bbox[4]
                     dx1 == IF x0 < 0 THEN -x0 ELSE 0
                     dy1 == IF y0 < 0 THEN -y0 ELSE 0
                     dx == IF x1 > img_w /\ dx1 = 0 THEN img_w - x1 ELSE dx1
                     dy == IF y1 > img_h /\ dy1 = 0 THEN img_h - y1 ELSE dy1
                 IN  <<pos[1] + dx, pos[2] + dy>>
    IN  Clamped(compute_text_bbox(pos[1], pos[2], fbg, style, fsize, q, a))

\* the anchor after clamp_text_within
clamp_text_within(pos, base, fbg, style, fsize, q, a) ==
    LET img_w == base.w
        img_h == base.h
        Clamped(bbox) ==
            IF bbox = <<>> THEN pos
            ELSE LET x0 == bbox[1]
                     y0 == bbox[2]
                     x1 == bbox[3]
                     y1 == bbox[4]
                     dx1 == IF x0 < 0 THEN -x0 ELSE 0
                     dy1 == IF y0 < 0 THEN -y0 ELSE 0
                     dx == IF x1 > img_w
                           THEN (IF (img_w - x1) < dx1 THEN img_w - x1 ELSE img_w - x1)
                           ELSE dx1
                     dy == IF y1 > img_h
                           THEN (IF (img_h - y1) < dy1 THEN img_h - y1 ELSE img_h - y1)
                           ELSE dy1
                 IN  <<pos[1] + dx, pos[2] + dy>>
    IN  Clamped(compute_text_bbox(pos[1], pos[2], fbg, style, fsize, q, a))

\* point_in_text_bbox with the edges of the box left out
point_in_text_bbox_strict(x, y) ==
    LET Inside(bbox) ==
            IF bbox = <<>> THEN FALSE
            ELSE (bbox[1] < x /\ x < bbox[3]) /\ (bbox[2] < y /\ y < bbox[4])
    IN  Inside(compute_text_bbox(text_pos[1], text_pos[2], filtered_bg, current_style,
                                 font_size, quote, author))

point_in_text_bbox(x, y) ==
    LET Inside(bbox) ==
            IF bbox = <<>> THEN FALSE
            ELSE (bbox[1] <= x /\ x <= bbox[3]) /\ (bbox[2] <= y /\ y <= bbox[4])
    IN  Inside(compute_text_bbox(text_pos[1], text_pos[2], filtered_bg, current_style,
                                 font_size, quote, author))

(***************************************************************************)
(* Inputs                                                                  *)
(***************************************************************************)
QuoteInputs == {<<>>, <<"W">>, <<"W", " ", "g">>}

AuthorInputs == {<<>>, <<"g">>}

FontSizeInputs == {10, 64}

StyleInputs == {"None", "Epic"}

WHITE == <<255, 255, 255>>

ColorInputs == {WHITE, <<255, 0, 0>>}

\* the file behind each path the file dialog can return
Files == {[path |-> "small.png", id |-> "small", w |-> 11, h |-> 8]}

Buttons == {"Left", "Right"}

Keys == {"Left", "Right", "Up", "Down", "Other"}

Abs(n) == IF n >= 0 THEN n ELSE -n

\* the anchor set by on_load_image
LoadAnchor(img) ==
    << IntTrunc(img.w * margin_ratio_num, margin_ratio_den),
       IntTrunc(img.h * margin_ratio_num, margin_ratio_den) >>

\* the anchors the exploration follows
InArena(pos, img) ==
    /\ Abs(pos[1] - LoadAnchor(img)[1]) <= MaxDrift
    /\ Abs(pos[2] - LoadAnchor(img)[2]) <= MaxDrift

CurrentBBox ==
    compute_text_bbox(text_pos[1], text_pos[2], filtered_bg, current_style,
                      font_size, quote, author)

\* the view position over an image point
ViewOf(pt) == << ox + (pt[1] * scale[1]) \div scale[2],
                 oy + (pt[2] * scale[1]) \div scale[2] >>

\* the image points around the corners of the box (around the anchor when no box)
CornerPoints(deltas) ==
    LET Corners(b) == IF b = <<>> THEN {text_pos} ELSE {<<b[1], b[2]>>, <<b[3], b[4]>>}
    IN  {<<c[1] + d[1], c[2] + d[2]>> : c \in Corners(CurrentBBox), d \in deltas}

\* the image points at the given distances from where the pointer holds the box
HeldPoints(deltas) ==
    LET off == IF drag_offset = <<>> THEN <<0, 0>> ELSE drag_offset
    IN  {<<text_pos[1] + off[1] + d[1], text_pos[2] + off[2] + d[2]>> : d \in deltas}

PressDeltas == {<<0, 0>>, <<-2, 0>>, <<0, -2>>, <<2, 0>>, <<0, 2>>}

MoveDeltas == {<<2, 0>>, <<0, 2>>, <<-2, -2>>, <<-20, -20>>, <<20, 20>>}

(***************************************************************************)
(* recompute                                                               *)
(***************************************************************************)
\* does a failure at step fail of the pass leave recompute as an exception
RecomputeRaisesNoTry(fail) == fail # 0

RecomputeRaises(fail) == FALSE

render_vars == <<filtered_bg, result_image, text_bbox_img_coords, pixmap, scale, ox, oy,
                 failures>>

spec_vars == <<current_style, text_color, font_size, quote, author>>

drag_vars == <<drag_offset, dragging, drag_show_box>>

\* fail = 0: the pass succeeds; 1: apply_style raises; 2: compose_final raises;
\* 3: update_preview_pixmap raises before the pixmap is set
recompute(fail, base, style, fsize, color, pos, q, a) ==
    LET fbg == apply_style(base, style)
        Shown(cf, up) ==
            /\ result_image' = IF fail \in {1, 2} THEN result_image ELSE cf.out
            /\ text_bbox_img_coords' =
                   IF fail \in {1, 2} THEN text_bbox_img_coords ELSE cf.rect
            /\ pixmap' = IF fail = 0 THEN up.pixmap ELSE pixmap
            /\ scale' = IF fail = 0 THEN up.scale ELSE scale
            /\ ox' = IF fail = 0 THEN up.ox ELSE ox
            /\ oy' = IF fail = 0 THEN up.oy ELSE oy
        Composed(cf) == Shown(cf, update_preview_pixmap(cf.out))
    IN  /\ filtered_bg' = IF fail = 1 THEN filtered_bg ELSE fbg
        /\ Composed(compose_final(TRUE, base, style, fsize, color, pos, q, a))
        /\ failures' = IF fail = 0 THEN failures ELSE failures + 1

FailStages == 0..3

CanFail(fail) == fail = 0 \/ failures < MaxFailures

\* the record of a handler run: the handler and its outcome, its return value, the
\* step at which its render pass failed (0: none, -1: no pass), whether an
\* exception left the handler, and the raster it wrote to disk (<<>>: none)
Event(kind, ret, fail) ==
    [kind |-> kind, ret |-> ret, fail |-> fail,
     raised |-> IF fail > 0 THEN RecomputeRaises(fail) ELSE FALSE,
     saved |-> <<>>]

(***************************************************************************)
(* Construction                                                            *)
(***************************************************************************)
DefaultImage == NewImage("default", 1200, 800)

no_call_yet == call = [op |-> "none"] /\ ret_val = <<>>

\* the session once a canvas and a TextSpec are in place and the render pass that
\* follows has succeeded
Constructed(base, style, fsize, color, pos, q, a) ==
    /\ base_image = base
    /\ current_style = style
    /\ text_color = color
    /\ font_size = fsize
    /\ quote = q
    /\ author = a
    /\ text_pos = pos
    /\ drag_offset = <<>>
    /\ dragging = FALSE
    /\ drag_show_box = FALSE
    /\ filtered_bg = apply_style(base, style)
    /\ LET Shown(cf, up) ==
               /\ result_image = cf.out
               /\ text_bbox_img_coords = cf.rect
               /\ pixmap = up.pixmap
               /\ scale = up.scale
               /\ ox = up.ox
               /\ oy = up.oy
           Composed(cf) == Shown(cf, update_preview_pixmap(cf.out))
       IN  Composed(compose_final(TRUE, base, style, fsize, color, pos, q, a))
    /\ ev = Event("init", FALSE, 0)
    /\ failures = 0

Init ==
    /\ Constructed(DefaultImage, "None", 64, WHITE, <<60, 60>>, <<>>, <<>>)
    /\ no_call_yet

(***************************************************************************)
(* Event handlers                                                          *)
(***************************************************************************)
no_call == UNCHANGED <<call, ret_val>>

no_event == UNCHANGED session_vars

\* a handler that returns without touching the session
Ignored(kind) ==
    /\ ev' = Event(kind, FALSE, -1)
    /\ UNCHANGED <<base_image, text_pos, spec_vars, drag_vars, render_vars>>
    /\ no_call

keyPressEvent(key, shift, fail) ==
    LET step == IF shift THEN 10 ELSE 1
        moved == CASE key = "Left" -> <<text_pos[1] - step, text_pos[2]>>
                   [] key = "Right" -> <<text_pos[1] + step, text_pos[2]>>
                   [] key = "Up" -> <<text_pos[1], text_pos[2] - step>>
                   [] key = "Down" -> <<text_pos[1], text_pos[2] + step>>
                   [] OTHER -> text_pos
        Moved(clamped) ==
            /\ CanFail(fail)
            /\ InArena(clamped, base_image)
            /\ text_pos' = clamped
            /\ recompute(fail, base_image, current_style, font_size, text_color,
                         clamped, quote, author)
            /\ ev' = Event("key", FALSE, fail)
            /\ UNCHANGED <<base_image, spec_vars, drag_vars>>
            /\ no_call
    IN  IF key \in {"Left", "Right", "Up", "Down"}
        THEN Moved(clamp_text_within(moved, base_image, filtered_bg, current_style,
                                     font_size, quote, author))
        ELSE fail = 0 /\ Ignored("key_other")

on_mouse_press(pos, button) ==
    LET img_pt == map_to_img(pos)
    IN  IF button = "Left" /\ point_in_text_bbox(img_pt[1], img_pt[2])
        THEN /\ dragging' = TRUE
             /\ drag_show_box' = TRUE
             /\ drag_offset' = <<img_pt[1] - text_pos[1], img_pt[2] - text_pos[2]>>
             /\ ev' = Event("press", TRUE, -1)
             /\ UNCHANGED <<base_image, text_pos, spec_vars, render_vars>>
             /\ no_call
        ELSE Ignored("press")

\* on_mouse_move that takes a captured offset for a drag in progress
on_mouse_move_by_offset(pos, fail) ==
    LET img_pt == map_to_img(pos)
    IN  IF drag_offset # <<>>
        THEN LET moved == <<img_pt[1] - drag_offset[1], img_pt[2] - drag_offset[2]>>
                 Moved(clamped) ==
                     /\ CanFail(fail)
                     /\ InArena(clamped, base_image)
                     /\ text_pos' = clamped
                     /\ recompute(fail, base_image, current_style, font_size, text_color,
                                  clamped, quote, author)
                     /\ ev' = Event("move", TRUE, fail)
                     /\ UNCHANGED <<base_image, spec_vars, drag_vars>>
                     /\ no_call
             IN  Moved(clamp_text_within(moved, base_image, filtered_bg, current_style,
                                         font_size, quote, author))
        ELSE fail = 0 /\ Ignored("move")

on_mouse_move(pos, fail) ==
    LET img_pt == map_to_img(pos)
    IN  IF dragging /\ drag_offset # <<>>
        THEN LET moved == <<img_pt[1] - drag_offset[1], img_pt[2] - drag_offset[2]>>
                 Moved(clamped) ==
                     /\ CanFail(fail)
                     /\ InArena(clamped, base_image)
                     /\ text_pos' = clamped
                     /\ recompute(fail, base_image, current_style, font_size, text_color,
                                  clamped, quote, author)
                     /\ ev' = Event("move", TRUE, fail)
                     /\ UNCHANGED <<base_image, spec_vars, drag_vars>>
                     /\ no_call
             IN  Moved(clamp_text_within(moved, base_image, filtered_bg, current_style,
                                         font_size, quote, author))
        ELSE IF dragging
        THEN \* drag_offset was never set: reading the attribute raises
             /\ fail = 0
             /\ ev' = [Event("move", FALSE, -1) EXCEPT !.raised = TRUE]
             /\ UNCHANGED <<base_image, text_pos, spec_vars, drag_vars, render_vars>>
             /\ no_call
        ELSE fail = 0 /\ Ignored("move")

\* on_mouse_release that ends the drag and keeps the box on display
on_mouse_release_keep_box(button, fail) ==
    IF button = "Left" /\ dragging
    THEN /\ CanFail(fail)
         /\ dragging' = FALSE
         /\ recompute(fail, base_image, current_style, font_size, text_color,
                      text_pos, quote, author)
         /\ ev' = Event("release", TRUE, fail)
         /\ UNCHANGED <<base_image, text_pos, spec_vars, drag_offset, drag_show_box>>
         /\ no_call
    ELSE fail = 0 /\ Ignored("release")

on_mouse_release(button, fail) ==
    IF button = "Left" /\ dragging
    THEN /\ CanFail(fail)
         /\ dragging' = FALSE
         /\ drag_show_box' = FALSE
         /\ recompute(fail, base_image, current_style, font_size, text_color,
                      text_pos, quote, author)
         /\ ev' = Event("release", TRUE, fail)
         /\ UNCHANGED <<base_image, text_pos, spec_vars, drag_offset>>
         /\ no_call
    ELSE fail = 0 /\ Ignored("release")

\* textChanged of either line edit: q and a are the texts of the two widgets
on_text_change(q, a, fail) ==
    /\ <<q, a>> # <<quote, author>>
    /\ q = quote \/ a = author
    /\ CanFail(fail)
    /\ quote' = q
    /\ author' = a
    /\ recompute(fail, base_image, current_style, font_size, text_color, text_pos, q, a)
    /\ ev' = Event("text", FALSE, fail)
    /\ UNCHANGED <<base_image, text_pos, current_style, text_color, font_size, drag_vars>>
    /\ no_call

\* on_font_change without its render pass
on_font_change_no_render(val, fail) ==
    /\ val # font_size
    /\ fail = 0
    /\ font_size' = val
    /\ ev' = Event("font", FALSE, fail)
    /\ UNCHANGED <<base_image, text_pos, current_style, text_color, quote, author, drag_vars,
                   render_vars>>
    /\ no_call

on_font_change(val, fail) ==
    /\ val # font_size
    /\ CanFail(fail)
    /\ font_size' = val
    /\ recompute(fail, base_image, current_style, val, text_color, text_pos, quote, author)
    /\ ev' = Event("font", FALSE, fail)
    /\ UNCHANGED <<base_image, text_pos, current_style, text_color, quote, author, drag_vars>>
    /\ no_call

\* color = <<>>: the dialog was cancelled (QColor.isValid() is false)
on_pick_color(color, fail) ==
    IF color # <<>>
    THEN /\ CanFail(fail)
         /\ text_color' = color
         /\ recompute(fail, base_image, current_style, font_size, color, text_pos, quote,
                      author)
         /\ ev' = Event("color", FALSE, fail)
         /\ UNCHANGED <<base_image, text_pos, current_style, font_size, quote, author,
                        drag_vars>>
         /\ no_call
    ELSE fail = 0 /\ Ignored("color_cancel")

\* on_style_change filtering the base image in place
on_style_change_in_place(style, fail) ==
    /\ style # current_style
    /\ CanFail(fail)
    /\ current_style' = style
    /\ base_image' = apply_style(base_image, style)
    /\ recompute(fail, base_image, style, font_size, text_color, text_pos, quote, author)
    /\ ev' = Event("style", FALSE, fail)
    /\ UNCHANGED <<text_pos, text_color, font_size, quote, author, drag_vars>>
    /\ no_call

on_style_change(style, fail) ==
    /\ style # current_style
    /\ CanFail(fail)
    /\ current_style' = style
    /\ recompute(fail, base_image, style, font_size, text_color, text_pos, quote, author)
    /\ ev' = Event("style", FALSE, fail)
    /\ UNCHANGED <<base_image, text_pos, text_color, font_size, quote, author, drag_vars>>
    /\ no_call

\* on_load_image resetting the anchor before the file is opened
on_load_image_anchor_first(path, fail) ==
    IF path = ""
    THEN fail = 0 /\ Ignored("load_cancel")
    ELSE IF \E f \in Files : f.path = path
    THEN LET f == CHOOSE g \in Files : g.path = path
             img == NewImage(f.id, f.w, f.h)
             pos == LoadAnchor(img)
         IN  /\ CanFail(fail)
             /\ base_image' = img
             /\ text_pos' = pos
             /\ recompute(fail, img, current_style, font_size, text_color, pos, quote,
                          author)
             /\ ev' = Event("load", FALSE, fail)
             /\ UNCHANGED <<spec_vars, drag_vars>>
             /\ no_call
    ELSE /\ fail = 0
         /\ text_pos' = LoadAnchor(base_image)
         /\ ev' = Event("load_failed", FALSE, -1)
         /\ UNCHANGED <<base_image, spec_vars, drag_vars, render_vars>>
         /\ no_call

\* path = "": the dialog was cancelled; a path with no readable image behind it
\* makes Image.open raise
on_load_image(path, fail) ==
    IF path = ""
    THEN fail = 0 /\ Ignored("load_cancel")
    ELSE IF \E f \in Files : f.path = path
    THEN LET f == CHOOSE g \in Files : g.path = path
             img == NewImage(f.id, f.w, f.h)
             pos == LoadAnchor(img)
         IN  /\ CanFail(fail)
             /\ base_image' = img
             /\ text_pos' = pos
             /\ recompute(fail, img, current_style, font_size, text_color, pos, quote,
                          author)
             /\ ev' = Event("load", FALSE, fail)
             /\ UNCHANGED <<spec_vars, drag_vars>>
             /\ no_call
    ELSE fail = 0 /\ Ignored("load_failed")

SaveFormat(ext) == IF ext \in {".jpg", ".jpeg"} THEN "JPEG" ELSE "PNG"

\* ext: the extension of the chosen path ("none": the dialog was cancelled);
\* fail = 1: compose_final raises, fail = 2: the write raises
on_save_image(ext, fail) ==
    IF ext = "none"
    THEN fail = 0 /\ Ignored("save_cancel")
    ELSE LET Saved(cf) ==
                 /\ fail \in 0..2
                 /\ CanFail(fail)
                 /\ text_bbox_img_coords' =
                        IF fail = 1 THEN text_bbox_img_coords ELSE cf.rect
                 /\ failures' = IF fail = 0 THEN failures ELSE failures + 1
                 /\ ev' = IF fail = 0
                          THEN [Event("save", FALSE, -1) EXCEPT
                                   !.saved = <<[img |-> cf.out, format |-> SaveFormat(ext),
                                                suffix |-> IF ext = "" THEN ".png"
                                                           ELSE ext]>>]
                          ELSE Event("save_failed", FALSE, -1)
                 /\ UNCHANGED <<base_image, text_pos, spec_vars, drag_vars, filtered_bg,
                                result_image, pixmap, scale, ox, oy>>
                 /\ no_call
         IN  Saved(compose_final(FALSE, base_image, current_style, font_size, text_color,
                                 text_pos, quote, author))

\* eventFilter on QEvent.Resize of the preview label
on_resize ==
    LET Shown(up) ==
            /\ pixmap' = up.pixmap
            /\ scale' = up.scale
            /\ ox' = up.ox
            /\ oy' = up.oy
    IN  /\ Shown(update_preview_pixmap(result_image))
        /\ ev' = Event("resize", FALSE, -1)
        /\ UNCHANGED <<base_image, text_pos, spec_vars, drag_vars, filtered_bg,
                       result_image, text_bbox_img_coords, failures>>
        /\ no_call

Paths == {""} \cup {f.path : f \in Files} \cup {"corrupt.png"}

SaveExts == {"none", "", ".jpg"}

(***************************************************************************)
(* The editing session: every handler, every render pass succeeding        *)
(***************************************************************************)
ArrowKeys == {"Left", "Right", "Up", "Down"}

KeyPress == \E key \in ArrowKeys, shift \in BOOLEAN : keyPressEvent(key, shift, 0)

\* a left press on the top-left corner of the box, or two pixels to its left
MousePress == \E pt \in {<<text_pos[1], text_pos[2]>>, <<text_pos[1] - 2, text_pos[2]>>} :
                  on_mouse_press(ViewOf(pt), "Left")

MouseMove == dragging /\ \E pt \in HeldPoints(MoveDeltas) : on_mouse_move(ViewOf(pt), 0)

MouseRelease == dragging /\ on_mouse_release("Left", 0)

TextChange == \E q \in QuoteInputs, a \in AuthorInputs : on_text_change(q, a, 0)

FontChange == \E val \in FontSizeInputs : on_font_change(val, 0)

PickColor == \E color \in ColorInputs : on_pick_color(color, 0)

StyleChange == \E style \in StyleInputs : on_style_change(style, 0)

LoadImage == \E f \in Files : on_load_image(f.path, 0)

SaveImage == on_save_image(".jpg", 0)

Next ==
    \/ KeyPress
    \/ MousePress
    \/ MouseMove
    \/ MouseRelease
    \/ TextChange
    \/ FontChange
    \/ PickColor
    \/ StyleChange
    \/ LoadImage
    \/ SaveImage

Spec == Init /\ [][Next]_vars

(***************************************************************************)
(* The drag protocol: presses, moves and releases anywhere, with any button *)
(***************************************************************************)
DragQuotes == {<<>>, <<"W">>}

PressAny == \E pt \in CornerPoints(PressDeltas), button \in Buttons :
                on_mouse_press(ViewOf(pt), button)

MoveAny == \E pt \in HeldPoints(MoveDeltas) : on_mouse_move(ViewOf(pt), 0)

ReleaseAny == \E button \in Buttons : on_mouse_release(button, 0)

QuoteEdit == \E q \in DragQuotes : on_text_change(q, author, 0)

NextDrag ==
    \/ PressAny
    \/ MoveAny
    \/ ReleaseAny
    \/ QuoteEdit
    \/ LoadImage

SpecDrag == Init /\ [][NextDrag]_vars

(***************************************************************************)
(* Failures: render passes that raise, loads that fail, dialogs cancelled   *)
(***************************************************************************)
KeyPressF == \E key \in {"Left", "Other"}, fail \in FailStages : keyPressEvent(key, FALSE, fail)

QuoteEditF == \E q \in DragQuotes, fail \in FailStages : on_text_change(q, author, fail)

StyleChangeF == \E style \in StyleInputs, fail \in FailStages : on_style_change(style, fail)

\* the colour dialog cancelled, or closed on the colour it opened with
PickColorF == \E color \in {<<>>, text_color}, fail \in FailStages : on_pick_color(color, fail)

LoadImageF == \E path \in Paths, fail \in FailStages : on_load_image(path, fail)

FontChangeF == \E val \in FontSizeInputs : on_font_change(val, 0)

\* a press on the top-left corner of the box, with either button
PressF == \E button \in Buttons : on_mouse_press(ViewOf(text_pos), button)

MoveF == \E pt \in HeldPoints({<<2, 0>>}) : on_mouse_move(ViewOf(pt), 0)

ReleaseF == \E button \in Buttons : on_mouse_release(button, 0)

SaveImageF == \E ext \in SaveExts, fail \in 0..2 : on_save_image(ext, fail)

Resize == on_resize

NextFail ==
    \/ KeyPressF
    \/ QuoteEditF
    \/ StyleChangeF
    \/ PickColorF
    \/ FontChangeF
    \/ PressF
    \/ MoveF
    \/ ReleaseF
    \/ LoadImageF
    \/ SaveImageF
    \/ Resize

SpecFail == Init /\ [][NextFail]_vars

(***************************************************************************)
(* wrap_text called directly on every short text and every small width     *)
(***************************************************************************)
\* the texts of at most n characters
Texts(n) == UNION {[1..k -> Chars] : k \in 0..n}

WrapFonts == {pick_style_font("None", 10), pick_style_font("Tech", 10)}

InitWrap ==
    /\ Constructed(DefaultImage, "None", 64, WHITE, <<60, 60>>, <<>>, <<>>)
    /\ \E text \in Texts(MaxTextLen), font \in WrapFonts, max_width \in 1..MaxWrapWidth :
           call = [op |-> "wrap_text", text |-> text, font |-> font,
                   max_width |-> max_width]
    /\ ret_val = <<>>

CallWrapText ==
    /\ call.op = "wrap_text"
    /\ ret_val = <<>>
    /\ ret_val' = <<wrap_text(call.text, call.font, call.max_width)>>
    /\ UNCHANGED call
    /\ no_event

NextWrap == CallWrapText

SpecWrap == InitWrap /\ [][NextWrap]_vars

\* the measured width of a line: right minus left of its textbbox
LineWidth(line, font) == textbbox(line, font)[3] - textbbox(line, font)[1]

\* a line made of exactly one word: not empty, no whitespace in it
OneWord(line) == line # <<>> /\ \A i \in 1..Len(line) : ~IsSpace(line[i])

\* the lines joined with single spaces
RECURSIVE JoinLines(_)
JoinLines(lines) ==
    IF lines = <<>> THEN <<>>
    ELSE IF Len(lines) = 1 THEN lines[1]
    ELSE lines[1] \o <<" ">> \o JoinLines(Tail(lines))

\* the text with every run of whitespace made one space and none at either end
RECURSIVE Normalized(_)
Normalized(text) ==
    IF text = <<>> THEN <<>>
    ELSE IF IsSpace(text[1]) THEN Normalized(Tail(text))
    ELSE IF Len(text) = 1 THEN text
    ELSE IF ~IsSpace(text[2]) THEN <<text[1]>> \o Normalized(Tail(text))
    ELSE IF Normalized(Tail(text)) = <<>> THEN <<text[1]>>
    ELSE <<text[1], " ">> \o Normalized(Tail(text))

WrapReturned == call.op = "wrap_text" /\ ret_val # <<>>

\* C1: every line wrap_text returns is at most max_width wide, or is one single
\* word that is itself wider than max_width.
C1_LinesFitOrOneWideWord ==
    WrapReturned =>
        \A i \in 1..Len(ret_val[1]) :
            \/ LineWidth(ret_val[1][i], call.font) <= call.max_width
            \/ /\ OneWord(ret_val[1][i])
               /\ LineWidth(ret_val[1][i], call.font) > call.max_width

\* a call that returned a line of two words that fits and a line of one word too wide
C1_Witness ==
    /\ WrapReturned
    /\ \E i \in 1..Len(ret_val[1]) :
           /\ ~OneWord(ret_val[1][i])
           /\ LineWidth(ret_val[1][i], call.font) <= call.max_width
    /\ \E i \in 1..Len(ret_val[1]) :
           /\ OneWord(ret_val[1][i])
           /\ LineWidth(ret_val[1][i], call.font) > call.max_width

\* C2: the lines wrap_text returns, joined with single spaces, are the input with
\* its whitespace normalized; a text with no word in it gives no line.
C2_JoinIsNormalizedText ==
    WrapReturned =>
        /\ JoinLines(ret_val[1]) = Normalized(call.text)
        /\ (\A i \in 1..Len(call.text) : IsSpace(call.text[i])) => ret_val[1] = <<>>

\* a call that broke a text with doubled and leading whitespace into several lines
C2_Witness ==
    /\ WrapReturned
    /\ Len(ret_val[1]) >= 2
    /\ IsSpace(call.text[1])
    /\ \E i \in 1..(Len(call.text) - 1) : IsSpace(call.text[i]) /\ IsSpace(call.text[i + 1])

(***************************************************************************)
(* clamp_text_within called directly from anchors in and around the canvas *)
(***************************************************************************)
ClampAnchors(img) ==
    {<<x, y>> : x \in (-MaxOut)..(img.w + MaxOut), y \in (-MaxOut)..(img.h + MaxOut)}

InitClamp ==
    /\ \E f \in Files, q \in QuoteInputs, a \in AuthorInputs, fsize \in FontSizeInputs,
          style \in StyleInputs :
           \E pos \in ClampAnchors(NewImage(f.id, f.w, f.h)) :
               /\ Constructed(NewImage(f.id, f.w, f.h), style, fsize, WHITE, pos, q, a)
               /\ call = [op |-> "clamp_text_within", pos |-> pos]
    /\ ret_val = <<>>

CallClamp ==
    LET Returned(pos) == text_pos' = pos /\ ret_val' = <<pos>>
    IN  /\ call.op = "clamp_text_within"
        /\ ret_val = <<>>
        /\ Returned(clamp_text_within(text_pos, base_image, filtered_bg, current_style,
                                       font_size, quote, author))
        /\ UNCHANGED <<base_image, spec_vars, drag_vars, render_vars, ev, call>>

\* a second call right after the first, nothing changed in between
CallClampAgain ==
    LET Returned(pos) == text_pos' = pos /\ ret_val' = Append(ret_val, pos)
    IN  /\ call.op = "clamp_text_within"
        /\ Len(ret_val) = 1
        /\ Returned(clamp_text_within(text_pos, base_image, filtered_bg, current_style,
                                       font_size, quote, author))
        /\ UNCHANGED <<base_image, spec_vars, drag_vars, render_vars, ev, call>>

NextClamp == CallClamp \/ CallClampAgain

SpecClamp == InitClamp /\ [][NextClamp]_vars

ClampReturned == call.op = "clamp_text_within" /\ ret_val # <<>>

\* C3: after clamp_text_within, a box no wider than the canvas has 0 <= x0 and
\* x1 <= canvas width, and a box no taller than the canvas has 0 <= y0 and
\* y1 <= canvas height.
C3_ClampedBoxInsideCanvas ==
    ClampReturned =>
        LET Inside(b) ==
                b # <<>> =>
                    /\ (b[3] - b[1] <= base_image.w => 0 <= b[1] /\ b[3] <= base_image.w)
                    /\ (b[4] - b[2] <= base_image.h => 0 <= b[2] /\ b[4] <= base_image.h)
        IN  Inside(CurrentBBox)

\* a box that fits the canvas both ways, was past the right and bottom edges, and
\* was moved by the clamp
C3_Witness ==
    /\ ClampReturned
    /\ CurrentBBox # <<>>
    /\ CurrentBBox[3] - CurrentBBox[1] <= base_image.w
    /\ CurrentBBox[4] - CurrentBBox[2] <= base_image.h
    /\ call.pos[1] > text_pos[1]
    /\ call.pos[2] > text_pos[2]

(***************************************************************************)
(* Properties of the session                                               *)
(***************************************************************************)
\* C4: in every state of the session, a bounding box that exists and is no wider
\* and no taller than the canvas lies within the canvas.
C4_BBoxStaysWithinImage ==
    LET Within(b) ==
            (b # <<>> /\ b[3] - b[1] <= base_image.w /\ b[4] - b[2] <= base_image.h) =>
                (0 <= b[1] /\ 0 <= b[2] /\ b[3] <= base_image.w /\ b[4] <= base_image.h)
    IN  Within(CurrentBBox)

\* the span of one draw lies inside the rectangle
DrawInside(op, rect) ==
    /\ rect.x <= op.x
    /\ op.x + LineWidth(op.text, op.font) <= rect.x + rect.w
    /\ rect.y <= op.y
    /\ op.y + (textbbox(op.text, op.font)[4] - textbbox(op.text, op.font)[2])
           <= rect.y + rect.h

\* C5: when the text is rendered without shadow (style None), every line drawn
\* spans [x, x + line width] by [cursor_y, cursor_y + line height] inside the
\* reported bounding box.
C5_DrawsInsideBBox ==
    current_style = "None" =>
        \A k \in 1..Len(result_image.ops) :
            DrawInside(result_image.ops[k], text_bbox_img_coords)

\* C6: a left press starts a drag if and only if a bounding box exists and the
\* pressed image point is inside it, edges and corners included; any other left
\* press leaves dragging as it was.
C6_PressStartsDragIffInside ==
    [][\A pt \in CornerPoints(PressDeltas) :
          on_mouse_press(ViewOf(pt), "Left") =>
              LET Hit(p, b) ==
                      /\ b # <<>>
                      /\ b[1] <= p[1] /\ p[1] <= b[3]
                      /\ b[2] <= p[2] /\ p[2] <= b[4]
                  Started == dragging' /\ drag_show_box' /\ ev'.ret
              IN  /\ Started <=> Hit(map_to_img(ViewOf(pt)), CurrentBBox)
                  /\ ~Hit(map_to_img(ViewOf(pt)), CurrentBBox) =>
                         UNCHANGED <<dragging, drag_offset>>]_vars

\* a drag started by a press on the bottom-right corner (x1, y1) of the box
C6_Witness ==
    /\ ev.kind = "press" /\ ev.ret /\ dragging
    /\ CurrentBBox # <<>>
    /\ drag_offset = <<CurrentBBox[3] - CurrentBBox[1], CurrentBBox[4] - CurrentBBox[2]>>

\* C7: a render pass that fails at any of its steps raises nothing into the
\* handler that started it and leaves the raster on display as it was.
C7_RenderFailureContained ==
    [][ev'.fail > 0 => ~ev'.raised /\ UNCHANGED <<pixmap, scale, ox, oy>>]_vars

\* an edit whose render pass failed: the quote is set, the display shows the
\* raster of the pass before it
C7_Witness ==
    /\ ev.kind = "text" /\ ev.fail > 0 /\ ~ev.raised
    /\ quote # <<>>
    /\ pixmap.img.ops = <<>>

\* C8: a load whose file cannot be opened, and a cancelled file dialog, leave the
\* base image, the anchor and the rendered result as they were.
C8_FailedLoadChangesNothing ==
    [][\A path \in Paths :
          ((~\E f \in Files : f.path = path) /\ on_load_image(path, 0)) =>
              UNCHANGED <<base_image, text_pos, result_image, filtered_bg, pixmap>>]_vars

\* a failed load with a quote typed and the anchor away from where a load puts it
C8_Witness ==
    /\ ev.kind = "load_failed"
    /\ text_pos # LoadAnchor(base_image)
    /\ quote # <<>>

\* C9: only a successful on_load_image replaces the base image; every other
\* handler leaves it, and so its dimensions, unchanged.
C9_OnlyLoadReplacesBase ==
    [][base_image' # base_image =>
          /\ ev'.kind = "load"
          /\ \E f \in Files : base_image' = NewImage(f.id, f.w, f.h)]_vars

\* a style change on a loaded canvas: the base image is still the unfiltered file
C9_Witness ==
    /\ ev.kind = "style" /\ ev.fail = 0
    /\ current_style # "None"
    /\ base_image.id = "small" /\ base_image.filters = <<>>
    /\ filtered_bg.filters # <<>>

\* C10: with every render pass succeeding, the result image is always the
\* composition of the current quote, author, font size, colour, anchor and style
\* over the current base image, and it is the raster on display.
C10_ResultIsFreshRender ==
    /\ result_image = compose_final(TRUE, base_image, current_style, font_size,
                                     text_color, text_pos, quote, author).out
    /\ filtered_bg = apply_style(base_image, current_style)
    /\ pixmap.img = result_image

\* a font-size change on a loaded, styled canvas with a quote and an author drawn
C10_Witness ==
    /\ ev.kind = "font" /\ ev.fail = 0
    /\ font_size = 10
    /\ quote # <<>> /\ author # <<>>
    /\ current_style = "Epic"
    /\ base_image.id = "small"
    /\ \E k \in 1..Len(result_image.ops) : result_image.ops[k].font.size = 10

(***************************************************************************)
(* Styles: every style of the combo box, edits of the texts, and saves      *)
(***************************************************************************)
StyleChangeAny == \E style \in STYLES : on_style_change(style, 0)

SaveAny == \E ext \in SaveExts : on_save_image(ext, 0)

NextShadow ==
    \/ StyleChangeAny
    \/ TextChange
    \/ SaveAny

SpecShadow == Init /\ [][NextShadow]_vars

\* the draws of a raster that are shadow copies, and those that are the text
ShadowDraws(img) == {k \in 1..Len(img.ops) : img.ops[k].shadow}

TextDraws(img) == {k \in 1..Len(img.ops) : ~img.ops[k].shadow}

\* draw k of the raster follows its four black copies, offset by (+-2, +-2)
HasFourShadows(img, k) ==
    /\ k > 4
    /\ {<<img.ops[j].x - img.ops[k].x, img.ops[j].y - img.ops[k].y>> : j \in (k - 4)..(k - 1)}
           = {<<-2, 2>>, <<2, 2>>, <<2, -2>>, <<-2, -2>>}
    /\ \A j \in (k - 4)..(k - 1) :
           /\ img.ops[j].shadow
           /\ img.ops[j].fill = <<0, 0, 0>>
           /\ img.ops[j].text = img.ops[k].text

\* C11: the preview raster carries shadow draws only under the styles Epic and
\* Noir, there as four black copies offset by (+-2, +-2) behind every line; the
\* raster written by a save carries none, whatever the style.
C11_ShadowOnlyInStyledPreview ==
    /\ current_style \notin {"Epic", "Noir"} => ShadowDraws(result_image) = {}
    /\ current_style \in {"Epic", "Noir"} =>
           \A k \in TextDraws(result_image) : HasFourShadows(result_image, k)
    /\ Cardinality(ShadowDraws(result_image)) =
           IF current_style \in {"Epic", "Noir"}
           THEN 4 * Cardinality(TextDraws(result_image)) ELSE 0
    /\ ev.saved # <<>> => ShadowDraws(ev.saved[1].img) = {}

\* a save under Noir with a quote drawn: shadows in the preview, none in the file
C11_Witness ==
    /\ ev.kind = "save" /\ ev.saved # <<>>
    /\ current_style = "Noir"
    /\ TextDraws(ev.saved[1].img) # {}
    /\ ShadowDraws(result_image) # {}


(***************************************************************************)
(* compute_text_bbox called directly on every short quote and author       *)
(***************************************************************************)
MaxBoxTextLen == 2

BBoxAnchors == {<<-3, -2>>, <<0, 0>>, <<7, 5>>}

InitBBox ==
    /\ \E f \in Files, q \in Texts(MaxBoxTextLen), a \in Texts(MaxBoxTextLen),
          fsize \in FontSizeInputs, style \in StyleInputs, pos \in BBoxAnchors :
           /\ Constructed(NewImage(f.id, f.w, f.h), style, fsize, WHITE, pos, q, a)
           /\ call = [op |-> "compute_text_bbox", x |-> pos[1], y |-> pos[2]]
    /\ ret_val = <<>>

CallBBox ==
    /\ call.op = "compute_text_bbox"
    /\ ret_val = <<>>
    /\ ret_val' = <<compute_text_bbox(call.x, call.y, filtered_bg, current_style,
                                      font_size, quote, author)>>
    /\ UNCHANGED call
    /\ no_event

NextBBox == CallBBox

SpecBBox == InitBBox /\ [][NextBBox]_vars

BBoxReturned == call.op = "compute_text_bbox" /\ ret_val # <<>>

\* a returned box is well-formed and has the anchor as its top-left corner
BoxAtAnchor(b) ==
    /\ b[1] <= b[3]
    /\ b[2] <= b[4]
    /\ b[1] = call.x
    /\ b[2] = call.y

\* C12 as stated: compute_text_bbox reports no box exactly when both the quote
\* text and the author text are empty, and otherwise a box with x0 <= x1 and
\* y0 <= y1 whose top-left corner is the anchor.
C12_NoBoxIffBothTextsEmpty ==
    BBoxReturned =>
        /\ (ret_val[1] = <<>>) <=> (quote = <<>> /\ author = <<>>)
        /\ ret_val[1] # <<>> => BoxAtAnchor(ret_val[1])

\* C12 amended: compute_text_bbox reports no box exactly when the quote holds no
\* word (it is empty or only whitespace) and the trimmed author text is empty,
\* and otherwise a box with x0 <= x1 and y0 <= y1 whose top-left corner is the
\* anchor.
C12_NoBoxIffNoWordToDraw ==
    BBoxReturned =>
        /\ (ret_val[1] = <<>>) <=> (split(quote) = <<>> /\ strip(author) = <<>>)
        /\ ret_val[1] # <<>> => BoxAtAnchor(ret_val[1])

\* a quote of whitespace only, no author to print, and no box reported
C12_Witness ==
    /\ BBoxReturned
    /\ quote # <<>>
    /\ split(quote) = <<>>
    /\ author # <<>>
    /\ ret_val[1] = <<>>

(***************************************************************************)
(* compute_text_layout and draw_text_with_shadow called directly at every   *)
(* font size of the spin box                                               *)
(***************************************************************************)
FONT_SIZE_MIN == 10

FONT_SIZE_MAX == 200

LayoutQuotes == {<<>>, <<" ">>, <<"W">>, <<"W", " ", "g">>}

LayoutAuthors == {<<>>, <<" ">>, <<"g">>}

InitLayout ==
    /\ \E fsize \in FONT_SIZE_MIN..FONT_SIZE_MAX, q \in LayoutQuotes, a \in LayoutAuthors,
          style \in StyleInputs :
           Constructed(DefaultImage, style, fsize, WHITE, <<60, 60>>, q, a)
    /\ \E op \in {"compute_text_layout", "draw_text_with_shadow"} : call = [op |-> op]
    /\ ret_val = <<>>

CallLayout ==
    /\ call.op = "compute_text_layout"
    /\ ret_val = <<>>
    /\ ret_val' = <<compute_text_layout(quote, author, font_size,
                                        pick_style_font(current_style, font_size),
                                        max_width_of(filtered_bg))>>
    /\ UNCHANGED call
    /\ no_event

\* the draw on a copy of the styled background, as compose_final makes it for a
\* save
CallDraw ==
    /\ call.op = "draw_text_with_shadow"
    /\ ret_val = <<>>
    /\ ret_val' = <<draw_text_with_shadow(filtered_bg, text_pos,
                                          pick_style_font(current_style, font_size),
                                          text_color, FALSE, quote, author, font_size)>>
    /\ UNCHANGED call
    /\ no_event

NextLayout == CallLayout \/ CallDraw

SpecLayout == InitLayout /\ [][NextLayout]_vars

LayoutReturned == call.op = "compute_text_layout" /\ ret_val # <<>>

DrawReturned == call.op = "draw_text_with_shadow" /\ ret_val # <<>>

\* C13: for every font size in 10..200, the line spacing of the layout equals
\* max(6, round(font_size * 0.25)).
C13_LineSpacingIsRounded ==
    LayoutReturned =>
        ret_val[1].line_spacing = Max(6, RoundHalfEven(font_size * 25, 100))

\* the height of one line as the renderer takes it: bottom minus top of textbbox
LineHeight(line, font) == textbbox(line, font)[4] - textbbox(line, font)[2]

\* the height of a block of lines: their heights and a line spacing between
\* each two
BlockHeight(lines, font, line_spacing) ==
    IF lines = <<>> THEN 0
    ELSE SumSeq([k \in 1..Len(lines) |-> LineHeight(lines[k], font)])
         + line_spacing * (Len(lines) - 1)

\* C14: whenever the trimmed author text is non-empty, the author block starts
\* with exactly one spacer line, also when the quote is empty; when the quote
\* gives no line, the spacer height is font_size * 0.6 truncated, the total height
\* is that spacer plus the author lines, and the renderer draws the first author
\* line one spacer height below the anchor's y.
C14_SpacerBeforeAuthor ==
    LET font == pick_style_font(current_style, font_size)
        OneSpacer(block) ==
            /\ Len(block) >= 2
            /\ block[1] = <<>>
            /\ \A k \in 2..Len(block) : block[k] # <<>>
        Fallback(lay) ==
            /\ lay.spacer_h = IntTrunc(font_size * 6, 10)
            /\ lay.spacer_h > 0
            /\ lay.total_h = lay.spacer_h
                             + BlockHeight(Tail(lay.author_block_lines), font,
                                           lay.line_spacing)
        FirstDraw(ops) ==
            /\ ops # <<>>
            /\ Len(ops[1].text) >= 3
            /\ SubSeq(ops[1].text, 1, 3) = SubSeq(AUTHOR_PREFIX, 1, 3)
            /\ ops[1].y = text_pos[2] + IntTrunc(font_size * 6, 10)
            /\ ops[1].y # text_pos[2]
    IN  /\ LayoutReturned /\ strip(author) # <<>> =>
            /\ OneSpacer(ret_val[1].author_block_lines)
            /\ split(quote) = <<>> => Fallback(ret_val[1])
        /\ LayoutReturned /\ strip(author) = <<>> => ret_val[1].author_block_lines = <<>>
        /\ DrawReturned /\ strip(author) # <<>> /\ split(quote) = <<>> =>
            FirstDraw(ret_val[1].img.ops)

\* an author under an empty quote: the layout has the spacer and the fallback
\* height
C14_Witness ==
    /\ LayoutReturned
    /\ quote = <<>>
    /\ strip(author) # <<>>
    /\ ret_val[1].author_block_lines[1] = <<>>
    /\ ret_val[1].spacer_h = IntTrunc(font_size * 6, 10)
    /\ font_size = FONT_SIZE_MAX

(***************************************************************************)
(* measure_multiline called directly on every short sequence of lines      *)
(***************************************************************************)
MaxLines == 3

MeasureLines == {<<"g">>, <<"W">>, <<"W", "g">>, <<"g", " ", "g">>}

MeasureSpacings == {0, line_spacing_of(10), line_spacing_of(64)}

MeasureFonts == WrapFonts \cup {pick_style_font("Epic", 64)}

InitMeasure ==
    /\ Constructed(DefaultImage, "None", 64, WHITE, <<60, 60>>, <<>>, <<>>)
    /\ \E n \in 0..MaxLines :
           \E lines \in [1..n -> MeasureLines], font \in MeasureFonts,
              line_spacing \in MeasureSpacings :
               call = [op |-> "measure_multiline", lines |-> lines, font |-> font,
                       line_spacing |-> line_spacing]
    /\ ret_val = <<>>

CallMeasure ==
    /\ call.op = "measure_multiline"
    /\ ret_val = <<>>
    /\ ret_val' = <<measure_multiline(call.lines, call.font, call.line_spacing)>>
    /\ UNCHANGED call
    /\ no_event

NextMeasure == CallMeasure

SpecMeasure == InitMeasure /\ [][NextMeasure]_vars

MeasureReturned == call.op = "measure_multiline" /\ ret_val # <<>>

\* C15: the width returned by measure_multiline is the largest line width, the
\* height is the sum of the line heights plus line_spacing * (line_count - 1),
\* both are 0 for zero lines, and N lines of one height H with spacing S measure
\* N * H + (N - 1) * S.
C15_MeasureIsMaxWidthAndSpacedHeights ==
    MeasureReturned =>
        LET lines == call.lines
            n == Len(lines)
            width == ret_val[1][1]
            height == ret_val[1][2]
            W(k) == LineWidth(lines[k], call.font)
            H(k) == LineHeight(lines[k], call.font)
        IN  /\ n = 0 => width = 0 /\ height = 0
            /\ n > 0 =>
                /\ \A k \in 1..n : W(k) <= width
                /\ \E k \in 1..n : W(k) = width
                /\ height = SumSeq([k \in 1..n |-> H(k)]) + call.line_spacing * (n - 1)
                /\ (\A k \in 1..n : H(k) = H(1)) =>
                       height = n * H(1) + (n - 1) * call.line_spacing
            /\ ret_val[1][3] = [k \in 1..n |-> H(k)]

\* three lines of one height and different widths, measured with a line spacing
C15_Witness ==
    /\ MeasureReturned
    /\ Len(call.lines) = MaxLines
    /\ call.line_spacing > 0
    /\ \A k \in 1..Len(call.lines) :
           LineHeight(call.lines[k], call.font) = LineHeight(call.lines[1], call.font)
    /\ LineWidth(call.lines[1], call.font) < LineWidth(call.lines[2], call.font)
    /\ ret_val[1][2] = MaxLines * LineHeight(call.lines[1], call.font)
                       + (MaxLines - 1) * call.line_spacing

(***************************************************************************)
(* Properties of clamp_text_within                                         *)
(***************************************************************************)
\* the box compute_text_bbox reports at an anchor
BBoxAt(pos) ==
    compute_text_bbox(pos[1], pos[2], filtered_bg, current_style, font_size, quote,
                      author)

\* the box lies fully inside the canvas
BoxInsideCanvas(b) ==
    /\ 0 <= b[1]
    /\ 0 <= b[2]
    /\ b[3] <= base_image.w
    /\ b[4] <= base_image.h

C17_OversizeBoxAlignsFarEdge ==
    Len(ret_val) = 1 =>
        LET Aligned(b0, b1) ==
                /\ (b0[3] - b0[1] > base_image.w /\ b0[3] > base_image.w) =>
                       /\ text_pos[1] - call.pos[1] = base_image.w - b0[3]
                       /\ text_pos[1] - call.pos[1]
                              = Min(IF b0[1] < 0 THEN -b0[1] ELSE 0, base_image.w - b0[3])
                       /\ b1[3] = base_image.w
                       /\ b1[1] < 0
                /\ (b0[4] - b0[2] > base_image.h /\ b0[4] > base_image.h) =>
                       /\ text_pos[2] - call.pos[2] = base_image.h - b0[4]
                       /\ text_pos[2] - call.pos[2]
                              = Min(IF b0[2] < 0 THEN -b0[2] ELSE 0, base_image.h - b0[4])
                       /\ b1[4] = base_image.h
                       /\ b1[2] < 0
        IN  BBoxAt(call.pos) # <<>> => Aligned(BBoxAt(call.pos), CurrentBBox)

\* a box wider and taller than the canvas that started past the left and top
\* edges as well as the right and bottom ones
C17_Witness ==
    /\ Len(ret_val) = 1
    /\ BBoxAt(call.pos) # <<>>
    /\ BBoxAt(call.pos)[1] < 0
    /\ BBoxAt(call.pos)[2] < 0
    /\ BBoxAt(call.pos)[3] > base_image.w
    /\ BBoxAt(call.pos)[4] > base_image.h
    /\ CurrentBBox[3] = base_image.w
    /\ CurrentBBox[4] = base_image.h

\* C19: a second call of clamp_text_within with nothing changed in between leaves
\* the anchor where the first call put it, for every anchor and every box size.
C19_ClampIdempotent ==
    Len(ret_val) = 2 => ret_val[2] = ret_val[1]

(***************************************************************************)
(* Properties of the drag                                                  *)
(***************************************************************************)
\* the pointer carried from where it holds the box: up to the arena of the
\* default canvas, by single pixels, and far past the far edges of the canvas
DragDeltas == {<<0, -20>>, <<1, 0>>, <<0, 1>>, <<-1, -1>>, <<20, 20>>}

MoveDragged == \E pt \in HeldPoints(DragDeltas) : on_mouse_move(ViewOf(pt), 0)

NextDragMove ==
    \/ PressAny
    \/ MoveDragged
    \/ ReleaseAny
    \/ QuoteEdit
    \/ FontChange
    \/ LoadImage

SpecDragMove == Init /\ [][NextDragMove]_vars

\* a handler returned False and left the session as it was
NotConsumed ==
    /\ ~ev'.ret
    /\ UNCHANGED <<base_image, text_pos, spec_vars, drag_vars, render_vars>>

\* C18: a mouse move changes the anchor only while a drag is in progress, that
\* is between a left press that hit the box and the next left release; during
\* the drag a move sets the anchor to the pointer's image point minus the offset
\* captured at the press, clamped; a move or a release outside a drag changes no
\* state and is not consumed.
C18_DragProtocol ==
    [][/\ \A pt \in HeldPoints(DragDeltas) :
              on_mouse_move(ViewOf(pt), 0) =>
                  IF dragging
                  THEN /\ ev'.ret
                       /\ text_pos' =
                              clamp_text_within(
                                  <<map_to_img(ViewOf(pt))[1] - drag_offset[1],
                                    map_to_img(ViewOf(pt))[2] - drag_offset[2]>>,
                                  base_image, filtered_bg, current_style, font_size,
                                  quote, author)
                       /\ UNCHANGED drag_vars
                  ELSE NotConsumed
       /\ \A button \in Buttons :
              on_mouse_release(button, 0) /\ ~dragging => NotConsumed
       /\ (ev'.kind = "move" /\ text_pos' # text_pos) => dragging
       /\ (dragging' /\ ~dragging) =>
              /\ ev'.kind = "press" /\ ev'.ret
              /\ \E pt \in CornerPoints(PressDeltas) :
                     /\ on_mouse_press(ViewOf(pt), "Left")
                     /\ drag_offset' = <<map_to_img(ViewOf(pt))[1] - text_pos[1],
                                         map_to_img(ViewOf(pt))[2] - text_pos[2]>>
       /\ (dragging /\ ~dragging') => ev'.kind = "release" /\ ev'.ret
      ]_vars

\* a move during a drag that carried the anchor along with the pointer
C18_Witness ==
    /\ ev.kind = "move" /\ ev.ret
    /\ dragging
    /\ base_image = DefaultImage
    /\ text_pos[2] < 60
    /\ CurrentBBox # <<>>

\* C20: after every mouse handler drag_show_box equals dragging, and while
\* dragging is true the drag offset has been set by the press that started the
\* drag.
C20_DragFlagsAgree ==
    /\ drag_show_box = dragging
    /\ dragging => drag_offset # <<>>

\* a drag that moved the anchor and was ended by a left release: both flags are
\* down and the offset of the press is still stored
C20_Witness ==
    /\ ev.kind = "release" /\ ev.ret
    /\ ~dragging /\ ~drag_show_box
    /\ drag_offset # <<>>
    /\ text_pos # <<60, 60>>
    /\ base_image = DefaultImage
    /\ CurrentBBox # <<>>

=============================================================================
